---- MODULE Spec2Model ----
(***************************************************************************)
(* A model of merkle-rs (src/main.rs): the packed-array Merkle tree, its   *)
(* construction (build_with_hasher, build_internal_nodes,                  *)
(* build_upper_level), positional verification (verify), the root          *)
(* accessor (root_hash) and the utility next_power_of_2.                   *)
(*                                                                         *)
(* Bytes are integers 0..255.  A Vec<u8> is a sequence of them.  The hash  *)
(* primitive is collision free: the digest of a message is the message     *)
(* itself between two symbols that are no bytes (256 and 257), so digests  *)
(* of different messages differ and a concatenation of digests splits in   *)
(* one way only, as a concatenation of 32-byte SHA-256 outputs does.       *)
(* usize values that matter for their width are sets of bit positions.     *)
(* Rust indices are 0-based; the sequence s holds index i at s[i + 1].     *)
(***************************************************************************)
EXTENDS Integers, Sequences, FiniteSets, TLC

VARIABLES
    pc,                    \* position of the running call
    usize_bits,            \* width of usize on the build target
    overflow_checks,       \* whether integer overflow panics (debug) or wraps
    values,                \* the slice handed to build_with_hasher
    hasher,                \* the Digest instance: the bytes absorbed so far
    leaves,                \* local `leaves` of build_with_hasher
    nodes,                 \* MerkleTree.nodes
    count_internal_nodes,  \* MerkleTree.count_internal_nodes
    count_leaves,          \* MerkleTree.count_leaves
    parents,               \* local `parents` of build_internal_nodes
    upper_level_start,     \* local of build_internal_nodes
    upper_level_end,       \* local of build_internal_nodes
    levels,                \* history: one record per build_upper_level call
    call,                  \* the last call made on the tree and its arguments
    verified,              \* what the last verify returned
    root,                  \* what the last root_hash returned
    err,                   \* the panic message, "" while none
    level_in,              \* argument of a stand-alone build_upper_level call
    level_out,             \* its result
    n,                     \* argument of a stand-alone next_power_of_2 call
    pow                    \* its result

vars == <<pc, usize_bits, overflow_checks, values, hasher, leaves, nodes,
          count_internal_nodes, count_leaves, parents, upper_level_start,
          upper_level_end, levels, call, verified, root, err,
          level_in, level_out, n, pow>>

(***************************************************************************)
(* Bounds of the model.                                                    *)
(***************************************************************************)
MaxLeaves == 9
MaxLevel == 5
MaxOnes == 2

(***************************************************************************)
(* Constants of the program.                                               *)
(***************************************************************************)
LEAF_SIG == 0
INTERNAL_SIG == 1
DegenerateInput == "expected more then 1 value"
PositionOutOfRange == "position does not relate to any leaf"

\* The targets: usize is 32 or 64 bits wide.
UsizeBits == {32, 64}

\* "a", "b"
Values == {<<97>>, <<98>>}

RECURSIVE SeqsOfLen(_, _)
SeqsOfLen(S, k) ==
    IF k = 0 THEN {<<>>}
    ELSE {Append(s, x) : s \in SeqsOfLen(S, k - 1), x \in S}

SeqsUpTo(S, k) == UNION {SeqsOfLen(S, j) : j \in 0..k}

Min(S) == CHOOSE x \in S : \A y \in S : x <= y

(***************************************************************************)
(* The Digest instance (sha2::Sha256).                                     *)
(***************************************************************************)
Fresh == <<>>

update(h, data) == h \o data

\* finalize without the reset.
finalize_only(h) == [out |-> <<256>> \o h \o <<257>>, hasher |-> h]

finalize_reset(h) == [out |-> <<256>> \o h \o <<257>>, hasher |-> Fresh]

as_bytes(value) == value

\* hash_leaf without the update of line 53.
hash_leaf_no_value(value, h) ==
    finalize_reset(update(h, <<LEAF_SIG>>))

hash_leaf(value, h) ==
    LET h1 == update(h, <<LEAF_SIG>>)
        h2 == update(h1, as_bytes(value))
    IN  finalize_reset(h2)

None == <<"None">>
Some(x) == <<"Some", x>>

\* hash_internal_node without the update of line 66.
hash_internal_node_single(left, right, h) ==
    LET h1 == update(h, <<INTERNAL_SIG>>)
        h2 == update(h1, left)
        h3 == IF right # None THEN update(h2, right[2]) ELSE h2
    IN  finalize_reset(h3)

hash_internal_node(left, right, h) ==
    LET h1 == update(h, <<INTERNAL_SIG>>)
        h2 == update(h1, left)
        h3 == IF right # None THEN update(h2, right[2]) ELSE update(h2, left)
    IN  finalize_reset(h3)

(***************************************************************************)
(* next_power_of_2 on a usize of `bits` bits, held as its set of one bits. *)
(***************************************************************************)
shr(v, k) == {b - k : b \in {x \in v : x >= k}}

wrapping_dec(v, bits) ==
    IF v = {} THEN 0..(bits - 1)
    ELSE LET l == Min(v) IN (v \ {l}) \cup (0..(l - 1))

wrapping_inc(v, bits) ==
    LET clear == (0..(bits - 1)) \ v
    IN  IF clear = {} THEN {}
        ELSE LET z == Min(clear) IN (v \ (0..z)) \cup {z}

\* next_power_of_2 without line 16.
next_power_of_2_no_shift1(v, bits, checks) ==
    LET v0 == wrapping_dec(v, bits)
        v2 == v0 \cup shr(v0, 2)
        v3 == v2 \cup shr(v2, 4)
        v4 == v3 \cup shr(v3, 8)
        v5 == v4 \cup shr(v4, 16)
    IN  [err |-> IF checks /\ v = {} THEN "attempt to subtract with overflow"
                 ELSE IF checks /\ v5 = 0..(bits - 1)
                      THEN "attempt to add with overflow"
                 ELSE "",
         val |-> wrapping_inc(v5, bits)]

next_power_of_2(v, bits, checks) ==
    LET v0 == wrapping_dec(v, bits)
        v1 == v0 \cup shr(v0, 1)
        v2 == v1 \cup shr(v1, 2)
        v3 == v2 \cup shr(v2, 4)
        v4 == v3 \cup shr(v3, 8)
        v5 == v4 \cup shr(v4, 16)
    IN  [err |-> IF checks /\ v = {} THEN "attempt to subtract with overflow"
                 ELSE IF checks /\ v5 = 0..(bits - 1)
                      THEN "attempt to add with overflow"
                 ELSE "",
         val |-> wrapping_inc(v5, bits)]

\* A small usize as its set of one bits, and back.
RECURSIVE to_bits(_, _)
to_bits(k, b) ==
    IF k = 0 THEN {}
    ELSE (IF k % 2 = 1 THEN {b} ELSE {}) \cup to_bits(k \div 2, b + 1)

RECURSIVE from_bits(_)
from_bits(v) ==
    IF v = {} THEN 0
    ELSE LET b == Min(v) IN 2 ^ b + from_bits(v \ {b})

(***************************************************************************)
(* build_upper_level                                                       *)
(***************************************************************************)
\* The loop without its else branch: an unmatched last digest is dropped.
RECURSIVE pair_up_drop_last(_, _, _, _)
pair_up_drop_last(lvl, i, result, h) ==
    IF i + 1 < Len(lvl)
    THEN LET r == hash_internal_node(lvl[i + 1], Some(lvl[i + 2]), h)
         IN  pair_up_drop_last(lvl, i + 2, Append(result, r.out), r.hasher)
    ELSE [out |-> result, hasher |-> h]

\* The while loop of lines 78-86, from index i on.
RECURSIVE pair_up(_, _, _, _)
pair_up(lvl, i, result, h) ==
    IF i < Len(lvl)
    THEN IF i + 1 < Len(lvl)
         THEN LET r == hash_internal_node(lvl[i + 1], Some(lvl[i + 2]), h)
              IN  pair_up(lvl, i + 2, Append(result, r.out), r.hasher)
         ELSE LET r == hash_internal_node(lvl[i + 1], None, h)
              IN  pair_up(lvl, i + 1, Append(result, r.out), r.hasher)
    ELSE [out |-> result, hasher |-> h]

\* Lines 88-91.
resize(result) ==
    IF Len(result) > 1 /\ Len(result) % 2 # 0
    THEN Append(result, result[Len(result)])
    ELSE result

build_upper_level_drop_last(lvl, h) ==
    LET r == pair_up_drop_last(lvl, 0, <<>>, h)
    IN  [out |-> resize(r.out), hasher |-> r.hasher]

\* build_upper_level without lines 88-91.
build_upper_level_no_resize(lvl, h) ==
    pair_up(lvl, 0, <<>>, h)

build_upper_level(lvl, h) ==
    LET r == pair_up(lvl, 0, <<>>, h)
    IN  [out |-> resize(r.out), hasher |-> r.hasher]

(***************************************************************************)
(* Slices and usize arithmetic, with the panics of the Rust operations.    *)
(***************************************************************************)
\* a - b on usize: a panic with overflow checks; without them the result
\* wraps to a value above every slice end, and the slice made of it panics.
sub_usize(a, b, checks) ==
    [err |-> IF b <= a THEN ""
             ELSE IF checks THEN "attempt to subtract with overflow"
             ELSE "slice index starts past its end",
     val |-> a - b]

\* &s[from..]
slice_from(s, from) ==
    [err |-> IF from <= Len(s) THEN "" ELSE "range start index out of range",
     val |-> IF from <= Len(s) THEN SubSeq(s, from + 1, Len(s)) ELSE <<>>]

\* dst[start..end].clone_from_slice(&src)
clone_from_slice(dst, start, end, src) ==
    IF start > end \/ end > Len(dst)
    THEN [err |-> "range index out of range", val |-> dst]
    ELSE IF end - start # Len(src)
    THEN [err |-> "destination and source slices have different lengths",
          val |-> dst]
    ELSE [err |-> "",
          val |-> [i \in 1..Len(dst) |->
                      IF start < i /\ i <= end THEN src[i - start]
                      ELSE dst[i]]]

\* values.iter().map(|v| hash_leaf(v, &mut hasher)).collect(), from index i on
RECURSIVE hash_leaves(_, _, _, _)
hash_leaves(vals, i, acc, h) ==
    IF i < Len(vals)
    THEN LET r == hash_leaf(vals[i + 1], h)
         IN  hash_leaves(vals, i + 1, Append(acc, r.out), r.hasher)
    ELSE [out |-> acc, hasher |-> h]

\* The assertions of build_with_hasher and of verify.
\* The assertions with the comparison off by one.
more_than_0(count) == count > 0

more_than_1(count) == count > 1

position_at_most(position, count) == position <= count

position_in_range(position, count) == position < count

\* build_internal_nodes without line 113.
skip_root(nds, prnts) == nds

\* nodes[0] = parents.remove(0)
place_root(nds, prnts) == [nds EXCEPT ![1] = prnts[1]]

\* One level of build_internal_nodes: build_upper_level on `lvl`, the window
\* [end - len, end) and the copy of the level into it.
level_step(nds, lvl, end, h, checks) ==
    LET r == build_upper_level(lvl, h)
        s == sub_usize(end, Len(r.out), checks)
        w == IF s.err = "" THEN clone_from_slice(nds, s.val, end, r.out)
             ELSE [err |-> s.err, val |-> nds]
    IN  [err     |-> w.err,
         nodes   |-> w.val,
         parents |-> r.out,
         start   |-> s.val,
         end     |-> end,
         hasher  |-> r.hasher,
         level   |-> [input |-> Len(lvl), output |-> Len(r.out),
                      start |-> s.val, end |-> end]]

(***************************************************************************)
(* The tree: build_with_hasher, then verify and root_hash.                 *)
(***************************************************************************)
NoCall == [op |-> "none", position |-> 0, value |-> <<>>]
NoPow == [err |-> "", val |-> {}]

\* The counts of the tree stay far below 2^31, where the width of usize makes
\* no difference: the tree is built for 64 bits, and InitPow draws the width.
Init ==
    /\ pc = "start"
    /\ usize_bits = 64
    /\ overflow_checks \in BOOLEAN
    /\ values \in SeqsUpTo(Values, MaxLeaves)
    /\ hasher = Fresh
    /\ leaves = <<>>
    /\ nodes = <<>>
    /\ count_internal_nodes = 0
    /\ count_leaves = 0
    /\ parents = <<>>
    /\ upper_level_start = 0
    /\ upper_level_end = 0
    /\ levels = <<>>
    /\ call = NoCall
    /\ verified = FALSE
    /\ root = <<>>
    /\ err = ""
    /\ level_in = <<>>
    /\ level_out = <<>>
    /\ n = {}
    /\ pow = NoPow

\* Lines 128-132: the assertion on the number of values.
Build_check ==
    /\ pc = "start"
    /\ count_leaves' = Len(values)
    /\ call' = [NoCall EXCEPT !.op = "build"]
    /\ IF more_than_1(Len(values))
       THEN pc' = "hash_leaves" /\ err' = err
       ELSE pc' = "panicked" /\ err' = DegenerateInput
    /\ UNCHANGED <<usize_bits, overflow_checks, values, hasher, leaves, nodes,
                   count_internal_nodes, parents, upper_level_start,
                   upper_level_end, levels, verified, root,
                   level_in, level_out, n, pow>>

\* Lines 134-140: the leaf digests, the counts, the array and the leaves in
\* its tail.
Build_leaves ==
    /\ pc = "hash_leaves"
    /\ LET hl  == hash_leaves(values, 0, <<>>, hasher)
           cl  == Len(hl.out)
           np  == next_power_of_2(to_bits(cl, 0), usize_bits, overflow_checks)
           cin == from_bits(np.val)
           new == [i \in 1..(cin + cl) |-> <<>>]
           cp  == IF cin <= Len(new)
                  THEN clone_from_slice(new, cin, Len(new), hl.out)
                  ELSE [err |-> "range start index out of range", val |-> new]
           e   == IF np.err # "" THEN np.err ELSE cp.err
       IN  /\ leaves' = hl.out
           /\ hasher' = hl.hasher
           /\ count_leaves' = cl
           /\ IF e # ""
              THEN /\ pc' = "panicked"
                   /\ err' = e
                   /\ UNCHANGED <<nodes, count_internal_nodes>>
              ELSE /\ pc' = "assemble"
                   /\ err' = err
                   /\ nodes' = cp.val
                   /\ count_internal_nodes' = cin
    /\ UNCHANGED <<usize_bits, overflow_checks, values, parents,
                   upper_level_start, upper_level_end, levels, call, verified,
                   root, level_in, level_out, n, pow>>

\* Lines 100-104: the level above the leaves.
Assemble_first ==
    /\ pc = "assemble"
    /\ LET lv == slice_from(nodes, count_internal_nodes)
           st == level_step(nodes, lv.val, count_internal_nodes, hasher,
                            overflow_checks)
           e  == IF lv.err # "" THEN lv.err ELSE st.err
       IN  IF e # ""
           THEN /\ pc' = "panicked"
                /\ err' = e
                /\ UNCHANGED <<hasher, nodes, parents, upper_level_start,
                               upper_level_end, levels>>
           ELSE /\ pc' = "assemble_loop"
                /\ err' = err
                /\ hasher' = st.hasher
                /\ nodes' = st.nodes
                /\ parents' = st.parents
                /\ upper_level_start' = st.start
                /\ upper_level_end' = st.end
                /\ levels' = Append(levels, st.level)
    /\ UNCHANGED <<usize_bits, overflow_checks, values, leaves,
                   count_internal_nodes, count_leaves, call, verified, root,
                   level_in, level_out, n, pow>>

\* Lines 106-111: one iteration of the loop.
Assemble_loop ==
    /\ pc = "assemble_loop"
    /\ Len(parents) > 1
    /\ LET st == level_step(nodes, parents, upper_level_start, hasher,
                            overflow_checks)
       IN  IF st.err # ""
           THEN /\ pc' = "panicked"
                /\ err' = st.err
                /\ UNCHANGED <<hasher, nodes, parents, upper_level_start,
                               upper_level_end, levels>>
           ELSE /\ pc' = "assemble_loop"
                /\ err' = err
                /\ hasher' = st.hasher
                /\ nodes' = st.nodes
                /\ parents' = st.parents
                /\ upper_level_start' = st.start
                /\ upper_level_end' = st.end
                /\ levels' = Append(levels, st.level)
    /\ UNCHANGED <<usize_bits, overflow_checks, values, leaves,
                   count_internal_nodes, count_leaves, call, verified, root,
                   level_in, level_out, n, pow>>

\* Line 113 and the return of build_with_hasher, lines 144-149.
Assemble_root ==
    /\ pc = "assemble_loop"
    /\ ~(Len(parents) > 1)
    /\ IF parents = <<>> \/ nodes = <<>>
       THEN /\ pc' = "panicked"
            /\ err' = "index out of bounds"
            /\ UNCHANGED <<nodes, parents>>
       ELSE /\ pc' = "ready"
            /\ err' = err
            /\ nodes' = place_root(nodes, parents)
            /\ parents' = Tail(parents)
    /\ UNCHANGED <<usize_bits, overflow_checks, values, hasher, leaves,
                   count_internal_nodes, count_leaves, upper_level_start,
                   upper_level_end, levels, call, verified, root,
                   level_in, level_out, n, pow>>

\* Lines 152-163.
Verify(position, value) ==
    /\ pc = "ready"
    /\ call' = [op |-> "verify", position |-> position, value |-> value]
    /\ IF ~position_in_range(position, count_leaves)
       THEN /\ pc' = "panicked"
            /\ err' = PositionOutOfRange
            /\ UNCHANGED <<hasher, verified>>
       ELSE IF count_internal_nodes + position >= Len(nodes)
       THEN /\ pc' = "panicked"
            /\ err' = "index out of bounds"
            /\ UNCHANGED <<hasher, verified>>
       ELSE LET r == hash_leaf(value, hasher)
            IN  /\ pc' = "ready"
                /\ err' = err
                /\ hasher' = r.hasher
                /\ verified' =
                       (nodes[count_internal_nodes + position + 1] = r.out)
    /\ UNCHANGED <<usize_bits, overflow_checks, values, leaves, nodes,
                   count_internal_nodes, count_leaves, parents,
                   upper_level_start, upper_level_end, levels, root,
                   level_in, level_out, n, pow>>

\* Lines 165-167.
Root_hash ==
    /\ pc = "ready"
    /\ call' = [NoCall EXCEPT !.op = "root_hash"]
    /\ root' = nodes[1]
    /\ UNCHANGED <<pc, usize_bits, overflow_checks, values, hasher, leaves,
                   nodes, count_internal_nodes, count_leaves, parents,
                   upper_level_start, upper_level_end, levels, verified, err,
                   level_in, level_out, n, pow>>

Next ==
    \/ Build_check
    \/ Build_leaves
    \/ Assemble_first
    \/ Assemble_loop
    \/ Assemble_root
    \/ \E position \in 0..(MaxLeaves + 1), value \in Values :
           Verify(position, value)
    \/ Root_hash

Spec == Init /\ [][Next]_vars

(***************************************************************************)
(* build_upper_level on its own, on any level of one to MaxLevel digests.  *)
(***************************************************************************)
TreeIdle ==
    /\ values = <<>>
    /\ leaves = <<>>
    /\ nodes = <<>>
    /\ count_internal_nodes = 0
    /\ count_leaves = 0
    /\ parents = <<>>
    /\ upper_level_start = 0
    /\ upper_level_end = 0
    /\ levels = <<>>
    /\ call = NoCall
    /\ verified = FALSE
    /\ root = <<>>
    /\ err = ""

DigestPool ==
    LET a == hash_leaf(<<97>>, Fresh).out
        b == hash_leaf(<<98>>, Fresh).out
    IN  {a, b, hash_internal_node(a, Some(b), Fresh).out}

InitLevel ==
    /\ pc = "level_input"
    /\ usize_bits = 64
    /\ overflow_checks = TRUE
    /\ hasher = Fresh
    /\ TreeIdle
    /\ level_in \in SeqsUpTo(DigestPool, MaxLevel) \ {<<>>}
    /\ level_out = <<>>
    /\ n = {}
    /\ pow = NoPow

Apply_build_upper_level ==
    /\ pc = "level_input"
    /\ LET r == build_upper_level(level_in, hasher)
       IN  level_out' = r.out /\ hasher' = r.hasher
    /\ pc' = "level_done"
    /\ UNCHANGED <<usize_bits, overflow_checks, values, leaves, nodes,
                   count_internal_nodes, count_leaves, parents,
                   upper_level_start, upper_level_end, levels, call, verified,
                   root, err, level_in, n, pow>>

NextLevel == Apply_build_upper_level

SpecLevel == InitLevel /\ [][NextLevel]_vars

(***************************************************************************)
(* next_power_of_2 on its own, on positive usize values with at most       *)
(* MaxOnes one bits and on the values 2^k - 1, on both widths and with     *)
(* overflow checks on and off.                                             *)
(***************************************************************************)
RECURSIVE BitSets(_, _)
BitSets(bits, k) ==
    IF k = 0 THEN {{}}
    ELSE LET prev == BitSets(bits, k - 1)
         IN  prev \cup {s \cup {b} : s \in prev, b \in 0..(bits - 1)}

\* The positive values up to 2^(bits - 1): above it the smallest power of two
\* that is at least the value is no usize.
PowInputs(bits) ==
    {v \in (BitSets(bits, MaxOnes) \cup {0..k : k \in 0..(bits - 1)}) \ {{}} :
        (bits - 1) \in v => v = {bits - 1}}

InitPow ==
    /\ pc = "pow_input"
    /\ usize_bits \in UsizeBits
    /\ overflow_checks \in BOOLEAN
    /\ hasher = Fresh
    /\ TreeIdle
    /\ level_in = <<>>
    /\ level_out = <<>>
    /\ n \in PowInputs(usize_bits)
    /\ pow = NoPow

Apply_next_power_of_2 ==
    /\ pc = "pow_input"
    /\ pow' = next_power_of_2(n, usize_bits, overflow_checks)
    /\ pc' = "pow_done"
    /\ UNCHANGED <<usize_bits, overflow_checks, values, hasher, leaves, nodes,
                   count_internal_nodes, count_leaves, parents,
                   upper_level_start, upper_level_end, levels, call, verified,
                   root, err, level_in, level_out, n>>

NextPow == Apply_next_power_of_2

SpecPow == InitPow /\ [][NextPow]_vars

(***************************************************************************)
(* What the claims are stated with: digests and the root as the            *)
(* specification words them.                                               *)
(***************************************************************************)
\* H(0x00 || bytes) and H(0x01 || left || right)
LeafDigest(bytes) == <<256, 0>> \o bytes \o <<257>>
PairDigest(left, right) == <<256, 1>> \o left \o right \o <<257>>

LeafLevel(vals) == [i \in 1..Len(vals) |-> LeafDigest(vals[i])]

\* The smallest power of two that is at least k.
SmallestPow2(k) ==
    CHOOSE p \in {2 ^ e : e \in 0..(MaxLeaves + 2)} : p >= k /\ p < 2 * k

\* The Level Builder applied until one digest is left.
RECURSIVE Climb(_)
Climb(lvl) ==
    IF Len(lvl) <= 1 THEN lvl
    ELSE Climb(build_upper_level(lvl, Fresh).out)

\* The root build_with_hasher computes for `vals`.
RootOf(vals) == Climb(hash_leaves(vals, 0, <<>>, Fresh).out)[1]

\* The roots of all the value sequences of 2 to MaxLeaves + 1 values.
Roots ==
    [t \in SeqsUpTo(Values, MaxLeaves + 1) \ SeqsUpTo(Values, 1) |-> RootOf(t)]

\* One uniform odd-node policy: at every level of more than one digest,
\* append a copy of the last digest if the length is odd, then hash the
\* adjacent pairs.
RECURSIVE ReferenceRoot(_)
ReferenceRoot(lvl) ==
    IF Len(lvl) <= 1 THEN lvl[1]
    ELSE LET padded == IF Len(lvl) % 2 = 1
                       THEN Append(lvl, lvl[Len(lvl)]) ELSE lvl
         IN  ReferenceRoot([k \in 1..(Len(padded) \div 2) |->
                               PairDigest(padded[2 * k - 1], padded[2 * k])])

\* The level the specification describes for `lvl`.
UpperLevelOf(lvl) ==
    LET m   == Len(lvl)
        raw == [k \in 1..((m + 1) \div 2) |->
                   IF 2 * k <= m THEN PairDigest(lvl[2 * k - 1], lvl[2 * k])
                   ELSE PairDigest(lvl[m], lvl[m])]
    IN  IF Len(raw) > 1 /\ Len(raw) % 2 = 1
        THEN Append(raw, raw[Len(raw)]) ELSE raw

\* Comparison of two usize values held as sets of one bits.
Max(S) == CHOOSE x \in S : \A y \in S : x >= y
BitsLess(a, b) ==
    a # b /\ Max((a \ b) \cup (b \ a)) \in b

BuildPcs == {"assemble", "assemble_loop", "ready"}

(***************************************************************************)
(* The claims.                                                             *)
(***************************************************************************)

\* C1: on the tree build returned, verify(i, v) with i < n is true exactly
\* when the leaf digest of v equals nodes[count_internal_nodes + i], which
\* is exactly when v = values[i].
C1_VerifyMatchesLeaf ==
    (pc = "ready" /\ call.op = "verify") =>
        /\ verified = (LeafDigest(call.value)
                          = nodes[count_internal_nodes + call.position + 1])
        /\ verified = (call.value = values[call.position + 1])

\* A verify of position i with the value of another position, which fails.
C1_Witness ==
    /\ pc = "ready" /\ call.op = "verify" /\ ~verified
    /\ \E j \in 1..Len(values) :
           j # call.position + 1 /\ values[j] = call.value

\* C2: after build on n >= 2 values the array has nextPow2(n) + n slots, the
\* leaf digests follow the internal slots in input order, and slot 0 holds
\* the digest the Level Builder ends with.
C2_Layout ==
    pc = "ready" =>
        LET k == Len(values)
            p == SmallestPow2(k)
        IN  /\ count_leaves = k
            /\ count_internal_nodes = p
            /\ Len(nodes) = p + k
            /\ \A i \in 0..(k - 1) : nodes[p + i + 1] = LeafDigest(values[i + 1])
            /\ <<nodes[1]>> = Climb(LeafLevel(values))

\* A tree of five leaves behind eight internal slots.
C2_Witness ==
    pc = "ready" /\ Len(values) = 5 /\ Len(nodes) = 13 /\ nodes[1] # <<>>

\* C3: build on fewer than two values panics with the DegenerateInput
\* message with no leaf hashed, next_power_of_2 not evaluated and no array
\* made; build on two or more values never panics with it.
C3_DegenerateInput ==
    pc # "start" =>
        IF Len(values) <= 1
        THEN /\ pc = "panicked" /\ err = DegenerateInput
             /\ hasher = Fresh /\ leaves = <<>> /\ nodes = <<>>
             /\ count_internal_nodes = 0 /\ levels = <<>>
        ELSE err # DegenerateInput

\* build on one value has panicked.
C3_Witness ==
    pc = "panicked" /\ err = DegenerateInput /\ Len(values) = 1

\* C4: verify with position >= count_leaves panics with the
\* PositionOutOfRange message, returns nothing and changes neither the
\* array, the counts nor the hasher; verify with a smaller position never
\* panics with it.
C4_VerifyStep ==
    (pc = "ready" /\ call'.op = "verify") =>
        IF call'.position >= count_leaves
        THEN /\ pc' = "panicked" /\ err' = PositionOutOfRange
             /\ UNCHANGED <<nodes, count_internal_nodes, count_leaves,
                            hasher, verified>>
        ELSE err' # PositionOutOfRange

C4_PositionOutOfRange == [][C4_VerifyStep]_vars

\* verify(tree, count_leaves, value) has panicked.
C4_Witness ==
    /\ pc = "panicked" /\ err = PositionOutOfRange
    /\ call.op = "verify" /\ call.position = count_leaves

\* C5: next_power_of_2(n) of a positive usize n returns without overflow a
\* power of two that is at least n and whose half is less than n.
C5_SmallestPowerOfTwo ==
    pc = "pow_done" =>
        /\ pow.err = ""
        /\ Cardinality(pow.val) = 1
        /\ ~BitsLess(pow.val, n)
        /\ BitsLess(shr(pow.val, 1), n)

\* C6: once the tree is ready, no call changes the array or the counts, the
\* hasher is fresh between calls, root_hash returns the digest it returned
\* before, and what verify returns is a function of the tree, the position
\* and the value alone.
C6_ReadyStep ==
    pc = "ready" =>
        /\ UNCHANGED <<nodes, count_internal_nodes, count_leaves>>
        /\ hasher' = Fresh
        /\ (root # <<>> => root' = root)
        /\ (pc' = "ready" /\ call'.op = "verify") =>
               verified' = (nodes[count_internal_nodes + call'.position + 1]
                               = LeafDigest(call'.value))

C6_ReadOnly == [](pc = "ready" => hasher = Fresh) /\ [][C6_ReadyStep]_vars

\* A successful verify made after a root_hash call.
C6_Witness ==
    pc = "ready" /\ call.op = "verify" /\ verified /\ root # <<>>

\* C7: build_upper_level on a level of m >= 1 digests returns the hashes of
\* the complete pairs in order, then the hash of an unmatched last digest
\* with itself, then a copy of the last result if there are more than one
\* and an odd number of them; the result has one digest or an even number.
C7_UpperLevel ==
    pc = "level_done" =>
        /\ level_out = UpperLevelOf(level_in)
        /\ hasher = Fresh
        /\ (Len(level_out) = 1 \/ Len(level_out) % 2 = 0)

\* Five digests: two pairs, the fifth hashed with itself, and the copy.
C7_Witness ==
    /\ pc = "level_done" /\ Len(level_in) = 5 /\ Len(level_out) = 4
    /\ level_out[3] = PairDigest(level_in[5], level_in[5])
    /\ level_out[4] = level_out[3]

\* C8: for n >= 2 leaves build_internal_nodes panics nowhere; every level is
\* shorter than the one below it, every window lies in [1,
\* count_internal_nodes), each window ends where the one before starts, no
\* leaf slot changes, and slot 0 is written by the root assignment only.
C8_Windows ==
    /\ pc = "panicked" => err \in {DegenerateInput, PositionOutOfRange}
    /\ pc \in BuildPcs =>
        /\ \A i \in 1..count_leaves :
               nodes[count_internal_nodes + i] = leaves[i]
        /\ pc # "ready" => nodes[1] = <<>>
        /\ \A k \in 1..Len(levels) :
               /\ levels[k].output < levels[k].input
               /\ 1 <= levels[k].start
               /\ levels[k].end = levels[k].start + levels[k].output
               /\ levels[k].end <= count_internal_nodes
               /\ levels[k].input =
                      (IF k = 1 THEN count_leaves ELSE levels[k - 1].output)
               /\ k > 1 => levels[k].end = levels[k - 1].start
               /\ \A j \in 1..(k - 1) : levels[k].end <= levels[j].start
    /\ pc = "ready" => levels[Len(levels)].output = 1

\* Nine leaves: levels of six, four, two and one digests in the windows
\* [10, 16), [6, 10), [4, 6) and [3, 4) of sixteen internal slots.
C8_Witness ==
    /\ pc = "ready" /\ count_leaves = 9 /\ Len(levels) = 4
    /\ levels[1].start = 10 /\ levels[2].start = 6
    /\ levels[3].start = 4 /\ levels[4].start = 3

\* C9: the root in slot 0 is the root of the reference procedure (pad an
\* odd level with a copy of its last digest, then hash the pairs), and
\* every level the loop hands to build_upper_level has an even length.
C9_UniformPolicy ==
    /\ pc = "ready" => nodes[1] = ReferenceRoot(LeafLevel(values))
    /\ \A k \in 2..Len(levels) : levels[k].input % 2 = 0

\* Nine leaves: the ninth is hashed with itself and the five digests are
\* padded to six; the three digests above them are padded to four.
C9_Witness ==
    /\ pc = "ready" /\ Len(values) = 9
    /\ levels[1].input = 9 /\ levels[1].output = 6
    /\ levels[2].input = 6 /\ levels[2].output = 4

\* C10: for an odd number n >= 3 of values, the root is the root of the
\* values followed by one more copy of the last one; and no other sequence
\* of n values has the same root.
C10_RootAndCount ==
    (pc = "ready" /\ call.op = "build") =>
        LET k == Len(values)
        IN  /\ (k >= 3 /\ k % 2 = 1) =>
                   nodes[1] = Roots[Append(values, values[k])]
            /\ \A t \in SeqsOfLen(Values, k) :
                   Roots[t] = nodes[1] => t = values

\* A tree of three leaves, just built.
C10_Witness ==
    pc = "ready" /\ call.op = "build" /\ Len(values) = 3

====
